---- MODULE Spec2Model ----
(***************************************************************************)
(* Project lifecycle of the back-office API: the Project document          *)
(* (projectModel.ts) and the request handlers of projectController.ts      *)
(* that read and write its status, progress and team.                      *)
(*                                                                         *)
(* Spec      runs every handler to completion before the next one starts.  *)
(* SpecConc  splits a handler at its awaits (database read, database       *)
(*           write), so that requests on the same document interleave.     *)
(* SpecNotify   the handlers that send an e-mail after their write.        *)
(* SpecAgg      the labor aggregation of expenseController.ts on every     *)
(*              attendance collection and team.                            *)
(* SpecExpense  expenses, which store the aggregation, next to the team    *)
(*              and attendance changes that follow.                        *)
(* SpecSalary   the aggregation while salaries change (userController.ts). *)
(* SpecStages   the explicit status requests, with the history of the      *)
(*              statuses they store.                                       *)
(* SpecRace     status, progress and team-assignment requests split at     *)
(*              their awaits, with that history.                           *)
(***************************************************************************)
EXTENDS Integers, FiniteSets, Sequences, TLC

(* ------------------------------ bounds -------------------------------- *)

\* number of project ids the database ever hands out
MaxProjects == 1

\* number of requests that can be in flight at once (SpecConc, SpecRace)
MaxRequests == 2

ProjectIds == 1..MaxProjects
Slots == 1..MaxRequests

(* ------------------------------ values -------------------------------- *)

\* a field that is absent from a request body / unset in a document
Undefined == "undefined"
\* an explicit null in a request body
Null == "null"

\* users of the User collection, by role
Workers == {"w1", "w2"}
Drivers == {"d1"}
Admins == {"a1"}
Engineers == {"e1"}
UserIds == Workers \cup Drivers \cup Admins \cup Engineers

\* req.user.userId of the authenticated caller
Requesters == Admins

\* the value null where a number is expected
NullNumber == -999

\* the number a comparison (<, >, >=) makes of a value: null counts as 0
ToNumber(v) == IF v = NullNumber THEN 0 ELSE v

\* progress fields a request body carries: <<>> is no field, <<p>> the value p
ProgressInputs ==
    {<<>>, <<NullNumber>>, <<-1>>, <<0>>, <<50>>, <<100>>, <<101>>}

\* workers arrays a request body carries (an id twice in the array is found
\* once by User.find, so it is rejected like an id that is no worker)
WorkerInputs == SUBSET ({"w1"} \cup Drivers)

\* driver ids a request body carries
DriverInputs == {Undefined, Null, "d1", "w1"}

\* assignedTo fields a request body carries: none, a user, an id of no user
AssigneeInputs == {Undefined, "e1", "x1"}

\* what becomes of the notification e-mail once the handler sends it (a
\* request that sends none is enumerated once, under "sent")
MailInputs == {"sent", "failed"}

(* ------------------------- the Project document ----------------------- *)

\* projectSchema.status.enum
Statuses ==
    { "draft", "estimation_prepared", "quotation_sent", "quotation_approved",
      "quotation_rejected", "lpo_received", "team_assigned", "work_started",
      "in_progress", "work_completed", "quality_check", "client_handover",
      "final_invoice_sent", "payment_received", "on_hold", "cancelled",
      "project_closed" }

\* status fields a request body carries: none, a status of the enum, or a
\* string that is none
StatusInputs == Statuses \cup {Undefined, "archived"}

\* the slot of an id under which no document is stored
NoProject ==
    [ stored |-> FALSE, status |-> Undefined, progress |-> 0,
      updatedBy |-> Undefined, assignedWorkers |-> {},
      assignedDriver |-> Undefined, assignedTo |-> Undefined ]

\* Project.create({... status: "draft", progress: 0, createdBy })
NewProject ==
    [ stored |-> TRUE, status |-> "draft", progress |-> 0,
      updatedBy |-> Undefined, assignedWorkers |-> {},
      assignedDriver |-> Undefined, assignedTo |-> Undefined ]

\* the transition table of the controller
validStatusTransitions ==
    [ draft |-> {"estimation_prepared"},
      estimation_prepared |-> {"quotation_sent", "on_hold", "cancelled"},
      quotation_sent |-> {"quotation_approved", "quotation_rejected",
                          "on_hold", "cancelled"},
      quotation_approved |-> {"lpo_received", "on_hold", "cancelled"},
      lpo_received |-> {"work_started", "on_hold", "cancelled"},
      work_started |-> {"in_progress", "on_hold", "cancelled"},
      in_progress |-> {"work_completed", "on_hold", "cancelled"},
      work_completed |-> {"quality_check", "on_hold"},
      quality_check |-> {"client_handover", "work_completed"},
      client_handover |-> {"final_invoice_sent", "on_hold"},
      final_invoice_sent |-> {"payment_received", "on_hold"},
      payment_received |-> {"project_closed"},
      on_hold |-> {"in_progress", "work_started", "cancelled"},
      cancelled |-> {},
      project_closed |-> {},
      team_assigned |-> {"work_started", "on_hold"} ]

(* ---------------- the Attendance and Expense documents ---------------- *)

\* number of expense ids the database ever hands out
MaxExpenses == 1

ExpenseIds == 1..MaxExpenses

\* new Types.ObjectId(): an id that is no user's, before it is drawn
FreshObjectId == "ObjectId()"

\* the ids new Types.ObjectId() can return: a new one at every call
ObjectIds == {"oid1", "oid2"}

\* the driver record of a project that has no driver assigned
NoDriver ==
    [ user |-> FreshObjectId, daysPresent |-> 0, dailySalary |-> 0,
      totalSalary |-> 0 ]

\* no labor breakdown: the request produced none
NoLabor == [ workers |-> {}, driver |-> NoDriver, totalLaborCost |-> 0 ]

\* the slot of an id under which no expense is stored. documentKey: the
\* material of the expense carries a document key; inBucket: the storage
\* bucket holds an object under that key
NoExpense ==
    [ stored |-> FALSE, project |-> 0, laborDetails |-> NoLabor,
      documentKey |-> FALSE, inBucket |-> FALSE ]

\* User.salary of the users that can be on a team, as they register
salary == [u \in Workers \cup Drivers |-> 50]

\* the statuses whose earlier presence the ordering properties ask about
Milestones == {"quotation_rejected", "lpo_received", "payment_received"}

(* ------------------------------- state -------------------------------- *)

VARIABLES
    projects,   \* the Project collection: id -> document (NoProject: none stored)
    nextId,     \* how many ids the database has handed out
    inflight,   \* SpecConc: per request slot, the handler between two awaits
    attendance, \* the Attendance collection: a set of documents
    expenses,   \* the Expense collection: id -> document (NoExpense: none stored)
    salaries,   \* User.salary of the users that can be on a team
    visited,    \* history: the milestone statuses each project has had stored
    last        \* the last request answered: what it asked and the response

vars == <<projects, nextId, inflight, attendance, expenses, salaries, visited,
         last>>

\* a request slot with no handler running
Idle ==
    [ pc |-> "idle", id |-> 0, status |-> Undefined, read |-> Undefined,
      user |-> Undefined, progress |-> <<>>, workers |-> {},
      driver |-> Undefined ]

NoRequest ==
    [ op |-> "none", id |-> 0, code |-> 0, before |-> NoProject,
      read |-> Undefined, status |-> Undefined, progress |-> <<>>,
      user |-> Undefined, mail |-> "none", assignedTo |-> Undefined,
      labor |-> NoLabor, stale |-> NoLabor, expense |-> 0,
      upload |-> "none", commented |-> FALSE ]

\* the response to a request, with the document as it was stored when the
\* handler's last step began (before) and the status the handler's own read
\* returned (read)
Response(op, id, code, before, read, status, progress, user) ==
    [ NoRequest EXCEPT
        !.op = op, !.id = id, !.code = code, !.before = before, !.read = read,
        !.status = status, !.progress = progress, !.user = user ]

Init ==
    /\ projects = [i \in ProjectIds |-> NoProject]
    /\ nextId = 0
    /\ inflight = [r \in Slots |-> Idle]
    /\ attendance = {}
    /\ expenses = [e \in ExpenseIds |-> NoExpense]
    /\ salaries = salary
    /\ visited = [i \in ProjectIds |-> {projects[i].status} \cap Milestones]
    /\ last = NoRequest

(* ----------------------- what the handlers compute -------------------- *)

\* the lookup without its guard for a missing entry: a status with no entry
\* in the table stops nothing
IsValidTransitionNoEntry(current, target) ==
    \/ current \notin DOMAIN validStatusTransitions
    \/ target \in validStatusTransitions[current]

\* validStatusTransitions[project.status]?.includes(status): a status with
\* no entry in the table (quotation_rejected) allows nothing
IsValidTransition(current, target) ==
    /\ current \in DOMAIN validStatusTransitions
    /\ target \in validStatusTransitions[current]

\* a range check without the upper limit
ProgressBelowRange(progress) ==
    /\ progress # <<>>
    /\ ToNumber(progress[1]) < 0

\* progress < 0 || progress > 100, on a body that carries a progress
ProgressOutOfRange(progress) ==
    /\ progress # <<>>
    /\ (ToNumber(progress[1]) < 0 \/ ToNumber(progress[1]) > 100)

\* Project.findByIdAndUpdate(id, updateData): sets the fields updateData
\* carries on the stored document; finds nothing when none is stored
findByIdAndUpdate(doc, status, progress, user) ==
    IF ~doc.stored THEN doc
    ELSE [ doc EXCEPT
             !.status = IF status # Undefined THEN status ELSE @,
             !.progress = IF progress # <<>> THEN progress[1] ELSE @,
             !.updatedBy = user ]

\* updateProject without the validation of the status its body carries
updateProjectCheckNoStatus(doc, status, progress) ==
    IF ~doc.stored THEN 404
    ELSE IF ProgressOutOfRange(progress) THEN 400
    ELSE 200

\* updateProject, up to its write: the response code the validation gives
\* (200: the write goes ahead)
updateProjectCheck(doc, status, progress) ==
    IF ~doc.stored THEN 404
    ELSE IF ProgressOutOfRange(progress) THEN 400
    ELSE IF status # Undefined /\ ~IsValidTransition(doc.status, status) THEN 400
    ELSE 200

\* updateProjectStatus without the lookup in the transition table
updateProjectStatusCheckNoTable(doc, status) ==
    IF status = Undefined THEN 400
    ELSE IF ~doc.stored THEN 404
    ELSE 200

\* updateProjectStatus, up to its write
updateProjectStatusCheck(doc, status) ==
    IF status = Undefined THEN 400
    ELSE IF ~doc.stored THEN 404
    ELSE IF ~IsValidTransition(doc.status, status) THEN 400
    ELSE 200

\* updateProjectProgress: the two status rules applied to the document read,
\* both on the progress the document had when it was read
autoStatus(doc) ==
    LET s1 == IF ToNumber(doc.progress) >= 0 /\ doc.status = "team_assigned"
              THEN "work_started" ELSE doc.status
    IN  IF ToNumber(doc.progress) > 0 /\ s1 = "work_started"
        THEN "in_progress" ELSE s1

\* the completion override made to respect the transition table
completedStatusByTable(status, progress) ==
    IF progress = 100 /\ IsValidTransition(status, "work_completed")
    THEN "work_completed" ELSE Undefined

\* updateProjectProgress: updateData.status, set only for progress 100 on a
\* document whose (auto-advanced) status is not work_completed yet
completedStatus(status, progress) ==
    IF progress = 100 /\ status # "work_completed"
    THEN "work_completed" ELSE Undefined

\* updateProjectProgress, up to its writes
updateProjectProgressCheck(doc, progress) ==
    IF progress = <<>> \/ ProgressOutOfRange(progress) THEN 400
    ELSE IF ~doc.stored THEN 404
    ELSE 200

\* project.save() of updateProjectProgress: writes the status path the
\* handler changed on its copy of the document
saveStatus(doc, status) ==
    IF doc.stored THEN [doc EXCEPT !.status = status] ELSE doc

\* deleteProject without its draft check
deleteProjectCheckAnyStatus(doc) ==
    IF ~doc.stored THEN 404 ELSE 200

\* deleteProject, up to its delete
deleteProjectCheck(doc) ==
    IF ~doc.stored THEN 404
    ELSE IF doc.status # "draft" THEN 400
    ELSE 200

\* User.find({_id: {$in: workers}, role: "worker"}).length === workers.length
allWorkers(workers) == workers \subseteq Workers

\* User.findOne({_id: driverId, role: "driver"})
isDriver(driver) == driver \in Drivers

\* the checks of a team assignment that accepts a project in any status
assignTeamAndDriverCheckAnyStatus(doc, workers, driverId) ==
    IF workers = <<>> \/ workers[1] = {} \/ driverId \in {Undefined, Null} THEN 400
    ELSE IF ~doc.stored THEN 404
    ELSE IF ~allWorkers(workers[1]) THEN 400
    ELSE IF ~isDriver(driverId) THEN 400
    ELSE 200

\* assignTeamAndDriver, up to its save
assignTeamAndDriverCheck(doc, workers, driverId) ==
    IF workers = <<>> \/ workers[1] = {} \/ driverId \in {Undefined, Null} THEN 400
    ELSE IF ~doc.stored THEN 404
    ELSE IF doc.status # "lpo_received" THEN 400
    ELSE IF ~allWorkers(workers[1]) THEN 400
    ELSE IF ~isDriver(driverId) THEN 400
    ELSE 200

\* updateWorkersAndDriver, up to its save
updateWorkersAndDriverCheck(doc, workers, driver) ==
    IF workers = <<>> /\ driver \in {Undefined, Null} THEN 400
    ELSE IF ~doc.stored THEN 400
    ELSE IF workers # <<>> /\ ~allWorkers(workers[1]) THEN 400
    ELSE IF driver \notin {Undefined, Null} /\ ~isDriver(driver) THEN 400
    ELSE 200

(* --------------- the handlers, each run to completion (Spec) ---------- *)

\* POST /project: required fields, the client lookup, Project.create
createProject(bodyOk, clientExists, user) ==
    /\ nextId < MaxProjects
    /\ IF ~bodyOk
       THEN /\ last' = Response("createProject", 0, 400, NoProject, Undefined,
                                Undefined, <<>>, user)
            /\ UNCHANGED <<projects, nextId, attendance, expenses, salaries>>
       ELSE IF ~clientExists
       THEN /\ last' = Response("createProject", 0, 404, NoProject, Undefined,
                                Undefined, <<>>, user)
            /\ UNCHANGED <<projects, nextId, attendance, expenses, salaries>>
       ELSE /\ nextId' = nextId + 1
            /\ projects' = [projects EXCEPT ![nextId + 1] = NewProject]
            /\ last' = Response("createProject", nextId + 1, 201, NoProject,
                                Undefined, "draft", <<0>>, user)
    /\ UNCHANGED <<inflight, attendance, expenses, salaries>>

\* PATCH /project/:id
updateProject(id, status, progress, user) ==
    LET doc == projects[id]
        code == updateProjectCheck(doc, status, progress)
    IN  /\ projects' = IF code = 200
                       THEN [projects EXCEPT
                               ![id] = findByIdAndUpdate(doc, status, progress, user)]
                       ELSE projects
        /\ last' = Response("updateProject", id, code, doc, doc.status,
                            status, progress, user)
        /\ UNCHANGED <<nextId, inflight, attendance, expenses, salaries>>

\* PATCH /project/:id/status
updateProjectStatus(id, status, user) ==
    LET doc == projects[id]
        code == updateProjectStatusCheck(doc, status)
    IN  /\ projects' = IF code = 200
                       THEN [projects EXCEPT
                               ![id] = findByIdAndUpdate(doc, status, <<>>, user)]
                       ELSE projects
        /\ last' = Response("updateProjectStatus", id, code, doc, doc.status,
                            status, <<>>, user)
        /\ UNCHANGED <<nextId, inflight, attendance, expenses, salaries>>

\* a catch that passes the failure of the e-mail on to the caller
emailRethrown(code, mail) == IF mail = "failed" THEN 500 ELSE code

\* catch (emailError) { console.error(...) }: the failure of the e-mail is
\* logged and the response stays the one of the write
emailCatch(code, mail) == code

\* POST /project/:id/progress; the e-mail is sent after the write, and only
\* when the progress differs from the one read
updateProjectProgress(id, progress, comment, user, email) ==
    LET doc == projects[id]
        written == updateProjectProgressCheck(doc, progress)
        \* Comment.create, when the body carries a comment or the progress
        \* differs from the one read
        commented == written = 200 /\ (comment \/ progress[1] # doc.progress)
        mail == IF written = 200 /\ progress[1] # doc.progress THEN email
                ELSE "none"
        code == emailCatch(written, mail)
        status == autoStatus(doc)
        saved == saveStatus(doc, status)
    IN  /\ mail = "none" => email = "sent"
        /\ projects' = IF written = 200
                       THEN [projects EXCEPT
                               ![id] = findByIdAndUpdate(
                                           saved,
                                           completedStatus(status, progress[1]),
                                           progress, user)]
                       ELSE projects
        /\ last' = [ Response("updateProjectProgress", id, code, doc,
                              doc.status, Undefined, progress, user)
                     EXCEPT !.mail = mail, !.commented = commented ]
        /\ UNCHANGED <<nextId, inflight, attendance, expenses, salaries>>

\* assignProject, up to its save
assignProjectCheck(doc, assignedTo) ==
    IF assignedTo = Undefined THEN 400
    ELSE IF ~doc.stored THEN 400
    ELSE IF assignedTo \notin UserIds THEN 400
    ELSE 200

\* POST /project/:id/assign; the e-mail is sent after the save
assignProject(id, assignedTo, email) ==
    LET doc == projects[id]
        written == assignProjectCheck(doc, assignedTo)
        mail == IF written = 200 THEN email ELSE "none"
        code == emailCatch(written, mail)
    IN  /\ mail = "none" => email = "sent"
        /\ projects' = IF written = 200
                       THEN [projects EXCEPT ![id].assignedTo = assignedTo]
                       ELSE projects
        /\ last' = [ Response("assignProject", id, code, doc, doc.status,
                              Undefined, <<>>, Undefined)
                     EXCEPT !.mail = mail, !.assignedTo = assignedTo ]
        /\ UNCHANGED <<nextId, inflight, attendance, expenses, salaries>>

\* DELETE /project/:id
deleteProject(id, user) ==
    LET doc == projects[id]
        code == deleteProjectCheck(doc)
    IN  /\ projects' = IF code = 200
                       THEN [projects EXCEPT ![id] = NoProject]
                       ELSE projects
        /\ last' = Response("deleteProject", id, code, doc, doc.status,
                            Undefined, <<>>, user)
        /\ UNCHANGED <<nextId, inflight, attendance, expenses, salaries>>

\* assignTeamAndDriver: workers, driver, status team_assigned, updatedBy
assignTeamAndDriver(id, workers, driverId, user) ==
    LET doc == projects[id]
        code == assignTeamAndDriverCheck(doc, workers, driverId)
    IN  /\ projects' = IF code = 200
                       THEN [projects EXCEPT
                               ![id] = [doc EXCEPT
                                          !.assignedWorkers = workers[1],
                                          !.assignedDriver = driverId,
                                          !.status = "team_assigned",
                                          !.updatedBy = user]]
                       ELSE projects
        /\ last' = Response("assignTeamAndDriver", id, code, doc, doc.status,
                            Undefined, <<>>, user)
        /\ UNCHANGED <<nextId, inflight, attendance, expenses, salaries>>

\* updateWorkersAndDriver: the workers and the driver the body carries
updateWorkersAndDriver(id, workers, driver, user) ==
    LET doc == projects[id]
        code == updateWorkersAndDriverCheck(doc, workers, driver)
    IN  /\ projects' = IF code = 200
                       THEN [projects EXCEPT
                               ![id] = [doc EXCEPT
                                          !.assignedWorkers =
                                              IF workers # <<>> THEN workers[1] ELSE @,
                                          !.assignedDriver =
                                              IF driver = Undefined THEN @
                                              ELSE IF driver = Null THEN Undefined
                                              ELSE driver]]
                       ELSE projects
        /\ last' = Response("updateWorkersAndDriver", id, code, doc, doc.status,
                            Undefined, <<>>, user)
        /\ UNCHANGED <<nextId, inflight, attendance, expenses, salaries>>

WorkersOption == {<<>>} \cup {<<w>> : w \in WorkerInputs}

Next ==
    \/ \E b, c \in BOOLEAN, u \in Requesters : createProject(b, c, u)
             /\ UNCHANGED visited
    \/ \E id \in ProjectIds, s \in StatusInputs, p \in ProgressInputs,
          u \in Requesters : updateProject(id, s, p, u)
             /\ UNCHANGED visited
    \/ \E id \in ProjectIds, s \in StatusInputs, u \in Requesters :
          updateProjectStatus(id, s, u)
             /\ UNCHANGED visited
    \/ \E id \in ProjectIds, p \in ProgressInputs, u \in Requesters,
          m \in MailInputs, c \in BOOLEAN :
             updateProjectProgress(id, p, c, u, m)
             /\ UNCHANGED visited
    \/ \E id \in ProjectIds, u \in Requesters : deleteProject(id, u)
             /\ UNCHANGED visited
    \/ \E id \in ProjectIds, w \in WorkersOption, d \in DriverInputs,
          u \in Requesters : assignTeamAndDriver(id, w, d, u)
             /\ UNCHANGED visited
    \/ \E id \in ProjectIds, w \in WorkersOption, d \in DriverInputs,
          u \in Requesters : updateWorkersAndDriver(id, w, d, u)
             /\ UNCHANGED visited

Spec == Init /\ [][Next]_vars

\* the handlers that notify by e-mail after their write
NextNotify ==
    \/ \E b, c \in BOOLEAN, u \in Requesters : createProject(b, c, u)
             /\ UNCHANGED visited
    \/ \E id \in ProjectIds, s \in StatusInputs, u \in Requesters :
          updateProjectStatus(id, s, u)
             /\ UNCHANGED visited
    \/ \E id \in ProjectIds, p \in ProgressInputs, u \in Requesters,
          m \in MailInputs, c \in BOOLEAN :
             updateProjectProgress(id, p, c, u, m)
             /\ UNCHANGED visited
    \/ \E id \in ProjectIds, a \in AssigneeInputs, m \in MailInputs :
          assignProject(id, a, m)
             /\ UNCHANGED visited

SpecNotify == Init /\ [][NextNotify]_vars

(* ------- the handlers split at their awaits: read, then write (SpecConc) ------ *)

\* a filter that also compares the stored status with the one read
\* (compare-and-swap)
idFilterWithStatus(doc, read) == doc.stored /\ doc.status = read

\* the filter of findByIdAndUpdate / findByIdAndDelete is the id alone: it
\* matches the stored document whatever status the handler read before
idFilter(doc, read) == doc.stored

\* a new request takes the first free slot
FreeSlot(r) ==
    /\ inflight[r] = Idle
    /\ \A q \in Slots : q < r => inflight[q] # Idle

\* updateProjectStatus: Project.findById and the validation of what it read
updateProjectStatusRead(r, id, status, user) ==
    LET doc == projects[id]
        code == updateProjectStatusCheck(doc, status)
    IN  /\ FreeSlot(r)
        /\ IF code = 200
           THEN /\ inflight' = [inflight EXCEPT
                                  ![r] = [ Idle EXCEPT
                                           !.pc = "updateProjectStatus",
                                           !.id = id, !.status = status,
                                           !.read = doc.status,
                                           !.user = user ]]
                /\ UNCHANGED last
           ELSE /\ last' = Response("updateProjectStatus", id, code, doc,
                                    doc.status, status, <<>>, user)
                /\ UNCHANGED inflight
        /\ UNCHANGED <<projects, nextId, attendance, expenses, salaries>>

\* updateProjectStatus: Project.findByIdAndUpdate(id, {status, updatedBy})
\* on the document as it is stored now, and the 200 response
updateProjectStatusWrite(r) ==
    LET req == inflight[r]
        doc == projects[req.id]
    IN  /\ req.pc = "updateProjectStatus"
        /\ projects' = [projects EXCEPT
                          ![req.id] = IF idFilter(doc, req.read)
                                      THEN findByIdAndUpdate(doc, req.status, <<>>,
                                                             req.user)
                                      ELSE doc]
        /\ last' = Response("updateProjectStatus", req.id, 200, doc, req.read,
                            req.status, <<>>, req.user)
        /\ inflight' = [inflight EXCEPT ![r] = Idle]
        /\ UNCHANGED <<nextId, attendance, expenses, salaries>>

\* deleteProject: Project.findById and the draft check on what it read
deleteProjectRead(r, id, user) ==
    LET doc == projects[id]
        code == deleteProjectCheck(doc)
    IN  /\ FreeSlot(r)
        /\ IF code = 200
           THEN /\ inflight' = [inflight EXCEPT
                                  ![r] = [ Idle EXCEPT
                                           !.pc = "deleteProject", !.id = id,
                                           !.read = doc.status,
                                           !.user = user ]]
                /\ UNCHANGED last
           ELSE /\ last' = Response("deleteProject", id, code, doc, doc.status,
                                    Undefined, <<>>, user)
                /\ UNCHANGED inflight
        /\ UNCHANGED <<projects, nextId, attendance, expenses, salaries>>

\* deleteProject: Project.findByIdAndDelete(id) on whatever is stored now
deleteProjectWrite(r) ==
    LET req == inflight[r]
        doc == projects[req.id]
    IN  /\ req.pc = "deleteProject"
        /\ projects' = [projects EXCEPT ![req.id] = NoProject]
        /\ last' = Response("deleteProject", req.id, 200, doc, req.read,
                            Undefined, <<>>, req.user)
        /\ inflight' = [inflight EXCEPT ![r] = Idle]
        /\ UNCHANGED <<nextId, attendance, expenses, salaries>>

NextConc ==
    \/ \E b, c \in BOOLEAN, u \in Requesters : createProject(b, c, u)
             /\ UNCHANGED visited
    \/ \E r \in Slots, id \in ProjectIds, s \in StatusInputs, u \in Requesters :
          updateProjectStatusRead(r, id, s, u)
             /\ UNCHANGED visited
    \/ \E r \in Slots : updateProjectStatusWrite(r)
             /\ UNCHANGED visited
    \/ \E r \in Slots, id \in ProjectIds, u \in Requesters :
          deleteProjectRead(r, id, u)
             /\ UNCHANGED visited
    \/ \E r \in Slots : deleteProjectWrite(r)
             /\ UNCHANGED visited

SpecConc == Init /\ [][NextConc]_vars

(* ------------------ labor aggregation (expenseController) ------------- *)

\* number of attendance documents the collection holds at most
MaxRecords == 3

\* the last instant at which attendance is marked; two instants make a day
MaxTime == 3

Times == 0..MaxTime

\* $dateToString {format: "%Y-%m-%d"}: the calendar day of an instant
dateToString(time) == time \div 2

\* ids a request can name: 0 is an id under which no project is stored
RequestIds == 0..MaxProjects

\* the documents the Attendance schema admits (type "project")
AttendanceDocs ==
    [ project : RequestIds, user : Workers \cup Drivers, time : Times,
      present : BOOLEAN ]

\* the unique index {project, user, date} of the Attendance collection
uniqueIndex(docs) ==
    \A a, b \in docs :
        (a.project = b.project /\ a.user = b.user /\ a.time = b.time) => a = b

\* Project.findById
findById(id) == IF id \in ProjectIds THEN projects[id] ELSE NoProject

\* Attendance.find({project, present: true, user: {$in: assignedWorkers}})
workerAttendanceRecords(docs, id, assignedWorkers) ==
    { r \in docs : r.project = id /\ r.present /\ r.user \in assignedWorkers }

\* a count of the calendar days on which the worker is present
workerDaysDistinctDates(records, w) ==
    Cardinality({ dateToString(r.time) : r \in { q \in records : q.user = w } })

\* workerDaysMap.get(worker): one for each record of the worker
workerDays(records, w) == Cardinality({ r \in records : r.user = w })

\* a count of the present records of the project, one per record
driverDaysPerRecord(docs, id) ==
    Cardinality({ r \in docs : r.project = id /\ r.present })

\* Attendance.aggregate: $match {project, present: true}, $group by the
\* day of the date, $count
driverDaysPresent(docs, id) ==
    Cardinality({ dateToString(r.time) :
                    r \in { q \in docs : q.project = id /\ q.present } })

\* the salary as it is stored
storedSalary(user) == IF user \in DOMAIN salaries THEN salaries[user] ELSE 0

\* user.salary || 0
dailySalary(user) ==
    IF user \in DOMAIN salaries THEN ToNumber(salaries[user]) ELSE 0

\* one record for each user that has a present record of the project
workerRecordsOfAttendance(docs, id, assignedWorkers) ==
    LET records == { r \in docs : r.project = id /\ r.present }
    IN  { [ user |-> w, daysPresent |-> workerDays(records, w),
            dailySalary |-> dailySalary(w),
            totalSalary |-> workerDays(records, w) * dailySalary(w) ] :
          w \in { r.user : r \in records } }

\* project.assignedWorkers.map(...): one record for each assigned worker
workerRecords(docs, id, assignedWorkers) ==
    LET records == workerAttendanceRecords(docs, id, assignedWorkers)
    IN  { [ user |-> w, daysPresent |-> workerDays(records, w),
            dailySalary |-> dailySalary(w),
            totalSalary |-> workerDays(records, w) * dailySalary(w) ] :
          w \in assignedWorkers }

\* the driver record
driverRecord(docs, id, assignedDriver) ==
    IF assignedDriver # Undefined
    THEN [ user |-> assignedDriver,
           daysPresent |-> driverDaysPresent(docs, id),
           dailySalary |-> dailySalary(assignedDriver),
           totalSalary |-> driverDaysPresent(docs, id)
                           * dailySalary(assignedDriver) ]
    ELSE NoDriver

\* workers.reduce((sum, w) => sum + w.totalSalary, 0)
RECURSIVE sumTotalSalary(_)
sumTotalSalary(workers) ==
    IF workers = {} THEN 0
    ELSE LET w == CHOOSE x \in workers : TRUE
         IN  w.totalSalary + sumTotalSalary(workers \ {w})

\* the cost of the workers alone
totalLaborCostOfWorkers(workers, driver) == sumTotalSalary(workers)

\* totalLaborCost
totalLaborCost(workers, driver) == sumTotalSalary(workers) + driver.totalSalary

\* calculateLaborDetails(projectId) for a stored project
calculateLaborDetails(docs, id) ==
    LET project == findById(id)
        workers == workerRecords(docs, id, project.assignedWorkers)
        driver == driverRecord(docs, id, project.assignedDriver)
    IN  [ workers |-> workers, driver |-> driver,
          totalLaborCost |-> totalLaborCost(workers, driver) ]

\* user: new Types.ObjectId() in the record of a project without driver
newObjectId(labor, oid) ==
    IF labor.driver.user = FreshObjectId
    THEN [labor EXCEPT !.driver.user = oid]
    ELSE labor

\* calculateLaborDetails: ApiError(404) when the project is not found
calculateLaborDetailsCheck(doc) == IF ~doc.stored THEN 404 ELSE 200

\* getProjectLaborData: catch (error) { throw new ApiError(500, ...) }
getProjectLaborDataCatch(code) == IF code = 200 THEN 200 ELSE 500

\* a labor read behind a cache: it also writes the breakdown it computed
\* into the expenses of the project
getProjectLaborDataCaching(id, oid) ==
    LET doc == findById(id)
        code == getProjectLaborDataCatch(calculateLaborDetailsCheck(doc))
        labor == newObjectId(calculateLaborDetails(attendance, id), oid)
    IN  /\ last' = [ Response("getProjectLaborData", id, code, doc, doc.status,
                              Undefined, <<>>, Undefined)
                     EXCEPT !.labor = IF code = 200 THEN labor ELSE NoLabor ]
        /\ expenses' = [ e \in ExpenseIds |->
                           IF /\ code = 200
                              /\ expenses[e].stored
                              /\ expenses[e].project = id
                           THEN [expenses[e] EXCEPT !.laborDetails = labor]
                           ELSE expenses[e] ]
        /\ UNCHANGED <<projects, nextId, inflight, attendance, salaries>>

\* GET /project/:projectId/labor
getProjectLaborData(id, oid) ==
    LET doc == findById(id)
        code == getProjectLaborDataCatch(calculateLaborDetailsCheck(doc))
    IN  /\ last' = [ Response("getProjectLaborData", id, code, doc, doc.status,
                              Undefined, <<>>, Undefined)
                     EXCEPT !.labor = IF code = 200
                                      THEN newObjectId(
                                             calculateLaborDetails(attendance,
                                                                   id), oid)
                                      ELSE NoLabor ]
        /\ UNCHANGED <<projects, nextId, inflight, attendance, expenses,
                       salaries>>

\* a project that has received its LPO
LpoReceived ==
    [ NewProject EXCEPT !.status = "lpo_received", !.updatedBy = "a1" ]

\* the sets of at most n documents
RECURSIVE SetsUpTo(_, _)
SetsUpTo(docs, n) ==
    IF n = 0 THEN {{}}
    ELSE LET smaller == SetsUpTo(docs, n - 1)
         IN  smaller \cup { S \cup {d} : S \in smaller, d \in docs }

\* the aggregation on every attendance collection and every team: projects
\* past the LPO with any team (updateWorkersAndDriver sets any), and any
\* attendance documents the unique index admits
InitAgg ==
    /\ projects \in [ ProjectIds ->
                        { [ LpoReceived EXCEPT !.assignedWorkers = w,
                                               !.assignedDriver = d ] :
                            w \in SUBSET Workers,
                            d \in Drivers \cup {Undefined} } ]
    /\ nextId = MaxProjects
    /\ inflight = [r \in Slots |-> Idle]
    /\ attendance \in { S \in SetsUpTo(AttendanceDocs, MaxRecords) :
                          uniqueIndex(S) }
    /\ expenses = [e \in ExpenseIds |-> NoExpense]
    /\ salaries = salary
    /\ visited = [i \in ProjectIds |-> {projects[i].status} \cap Milestones]
    /\ last = NoRequest

NextAgg ==
    \E id \in RequestIds, oid \in ObjectIds :
       getProjectLaborData(id, oid) /\ UNCHANGED visited

SpecAgg == InitAgg /\ [][NextAgg]_vars

(* --------------------- expenses (expenseController) ------------------- *)

\* the outcome of uploadExpenseDocument for the file of a material: no file
\* in the request, success, or no success ({success: false} or a rejected
\* promise, which each handler treats alike)
UploadInputs == {"none", "ok", "failed"}

\* the bodies of the expense requests: without materials, or with one
\* material and the outcome of the upload of its file
ExpenseBodies ==
    { [materials |-> FALSE, upload |-> "none"] }
    \cup { [materials |-> TRUE, upload |-> f] : f \in UploadInputs }

\* workers arrays and driver ids of the team requests
TeamWorkerInputs == {<<>>} \cup { <<w>> : w \in SUBSET Workers }
TeamDriverInputs == {Undefined} \cup Drivers

\* an insert that replaces the first document of the collection
firstExpenseId(exps) == 1

\* Expense.create stores a new document under an id of its own (0: the
\* collection is full)
newExpenseId(exps) ==
    IF \E e \in ExpenseIds : ~exps[e].stored
    THEN CHOOSE e \in ExpenseIds :
            /\ ~exps[e].stored
            /\ \A f \in ExpenseIds : f < e => exps[f].stored
    ELSE 0

\* a new Attendance document is saved unless the unique index rejects it
markAttendance(id, user, time, present) ==
    LET doc == [ project |-> id, user |-> user, time |-> time,
                 present |-> present ]
        code == IF uniqueIndex(attendance \cup {doc}) THEN 201 ELSE 500
    IN  /\ Cardinality(attendance) < MaxRecords
        /\ attendance' = IF code = 201 THEN attendance \cup {doc}
                         ELSE attendance
        /\ last' = Response("markAttendance", id, code, findById(id),
                            findById(id).status, Undefined, <<>>, user)
        /\ UNCHANGED <<projects, nextId, inflight, expenses, salaries>>

\* createExpense, up to Expense.create: the materials of the body, then
\* the labor aggregation, whose ApiError the catch passes on with its
\* status; a failed upload is logged and the material kept without document
createExpenseCheck(materials, doc, upload) ==
    IF ~materials THEN 400
    ELSE IF calculateLaborDetailsCheck(doc) # 200
         THEN calculateLaborDetailsCheck(doc)
    ELSE 201

\* POST /project/:projectId/expense
createExpense(id, materials, upload, user, oid) ==
    LET doc == findById(id)
        code == createExpenseCheck(materials, doc, upload)
        e == newExpenseId(expenses)
        labor == newObjectId(calculateLaborDetails(attendance, id), oid)
    IN  /\ e \in ExpenseIds
        /\ expenses' =
             IF code = 201
             THEN [expenses EXCEPT
                     ![e] = [ stored |-> TRUE, project |-> id,
                              laborDetails |-> labor,
                              documentKey |-> (upload = "ok"),
                              inBucket |-> (upload = "ok") ]]
             ELSE expenses
        /\ last' = [ Response("createExpense", id, code, doc, doc.status,
                              Undefined, <<>>, user)
                     EXCEPT !.labor = IF code = 201 THEN labor ELSE NoLabor,
                            !.expense = IF code = 201 THEN e ELSE 0,
                            !.upload = upload ]
        /\ UNCHANGED <<projects, nextId, inflight, attendance, salaries>>

\* updateExpense, up to Expense.findByIdAndUpdate
updateExpenseCheck(materials, expense, upload) ==
    IF ~materials THEN 400
    ELSE IF ~expense.stored THEN 404
    ELSE IF calculateLaborDetailsCheck(findById(expense.project)) # 200
         THEN calculateLaborDetailsCheck(findById(expense.project))
    ELSE IF upload = "failed" THEN 500
    ELSE 200

\* updateExpense: calculateLaborDetails(existingExpense.project)
freshLaborDetails(docs, expense) == calculateLaborDetails(docs, expense.project)

\* PUT /expense/:expenseId
updateExpense(e, materials, upload, user, oid) ==
    LET expense == expenses[e]
        doc == findById(expense.project)
        code == updateExpenseCheck(materials, expense, upload)
        labor == newObjectId(freshLaborDetails(attendance, expense), oid)
        \* the file of the request reached the upload: the old document
        \* was deleted from the bucket first
        replaced == /\ materials
                    /\ expense.stored
                    /\ calculateLaborDetailsCheck(doc) = 200
                    /\ upload # "none"
    IN  /\ expenses' =
             IF code = 200
             THEN [expenses EXCEPT
                     ![e] = [ expense EXCEPT
                                !.laborDetails = labor,
                                !.documentKey = IF upload = "ok" THEN TRUE
                                                ELSE @,
                                !.inBucket = IF upload = "ok" THEN TRUE
                                             ELSE @ ]]
             ELSE IF replaced
             THEN [expenses EXCEPT ![e] = [expense EXCEPT !.inBucket = FALSE]]
             ELSE expenses
        /\ last' = [ Response("updateExpense", expense.project, code, doc,
                              doc.status, Undefined, <<>>, user)
                     EXCEPT !.labor = IF code = 200 THEN labor ELSE NoLabor,
                            !.stale = expense.laborDetails,
                            !.expense = e,
                            !.upload = upload ]
        /\ UNCHANGED <<projects, nextId, inflight, attendance, salaries>>

\* projects past the LPO, no team yet, no attendance, no expense
InitExpense ==
    /\ projects = [i \in ProjectIds |-> LpoReceived]
    /\ nextId = MaxProjects
    /\ inflight = [r \in Slots |-> Idle]
    /\ attendance = {}
    /\ expenses = [e \in ExpenseIds |-> NoExpense]
    /\ salaries = salary
    /\ visited = [i \in ProjectIds |-> {projects[i].status} \cap Milestones]
    /\ last = NoRequest

NextExpense ==
    \/ \E id \in ProjectIds, w \in TeamWorkerInputs, d \in TeamDriverInputs,
          u \in Requesters : assignTeamAndDriver(id, w, d, u)
             /\ UNCHANGED visited
    \/ \E id \in ProjectIds, w \in TeamWorkerInputs, d \in TeamDriverInputs,
          u \in Requesters : updateWorkersAndDriver(id, w, d, u)
             /\ UNCHANGED visited
    \/ \E id \in ProjectIds, t \in Times : markAttendance(id, "w1", t, TRUE)
             /\ UNCHANGED visited
    \/ \E id \in RequestIds, oid \in ObjectIds : getProjectLaborData(id, oid)
             /\ UNCHANGED visited
    \/ \E id \in RequestIds, b \in ExpenseBodies, u \in Requesters,
          oid \in ObjectIds : createExpense(id, b.materials, b.upload, u, oid)
             /\ UNCHANGED visited
    \/ \E e \in ExpenseIds, b \in ExpenseBodies, u \in Requesters,
          oid \in ObjectIds : updateExpense(e, b.materials, b.upload, u, oid)
             /\ UNCHANGED visited

SpecExpense == InitExpense /\ [][NextExpense]_vars

(* ---------------------- salaries (userController) --------------------- *)

\* the salary field of an update body: an empty field, which the Number
\* cast stores as null, or an amount
SalaryInputs == {NullNumber, 80}

\* PUT /user/:id by an admin: User.findByIdAndUpdate(id, updateData) with no
\* validators run
updateUser(user, amount) ==
    /\ salaries' = [salaries EXCEPT ![user] = amount]
    /\ last' = [ Response("updateUser", 0, 200, NoProject, Undefined,
                          Undefined, <<>>, user)
                 EXCEPT !.progress = <<amount>> ]
    /\ UNCHANGED <<projects, nextId, inflight, attendance, expenses>>

\* the labor aggregation while teams, attendance and salaries change
NextSalary ==
    \/ \E id \in ProjectIds, w \in TeamWorkerInputs, d \in TeamDriverInputs,
          u \in Requesters : updateWorkersAndDriver(id, w, d, u)
             /\ UNCHANGED visited
    \/ \E id \in ProjectIds, t \in Times : markAttendance(id, "w1", t, TRUE)
             /\ UNCHANGED visited
    \/ \E u \in {"w1", "d1"}, a \in SalaryInputs : updateUser(u, a)
             /\ UNCHANGED visited
    \/ \E id \in RequestIds, oid \in ObjectIds : getProjectLaborData(id, oid)
             /\ UNCHANGED visited

SpecSalary == InitExpense /\ [][NextSalary]_vars

(* ------------------------ the order of the stages --------------------- *)

\* the history of Project.status: each project's milestones, with the one
\* the step stores
recordVisited ==
    visited' = [ i \in ProjectIds |->
                   visited[i] \cup ({projects'[i].status} \cap Milestones) ]

\* the explicit status requests, one after the other, with the history of
\* the statuses they store
NextStages ==
    \/ \E b, c \in BOOLEAN, u \in Requesters : createProject(b, c, u)
             /\ recordVisited
    \/ \E id \in ProjectIds, s \in StatusInputs, p \in ProgressInputs,
          u \in Requesters : updateProject(id, s, p, u)
             /\ recordVisited
    \/ \E id \in ProjectIds, s \in StatusInputs, u \in Requesters :
          updateProjectStatus(id, s, u)
             /\ recordVisited

SpecStages == Init /\ [][NextStages]_vars

(* ------- status, progress and team requests interleaved (SpecRace) ---- *)

\* the progress a racing request carries: the one with the completion rule
RaceProgressInputs == {<<100>>}

\* the targets a racing status request names: the ones the table admits for
\* the stored status, and project_closed from any status
RaceStatusInputs(id) ==
    { s \in Statuses : IsValidTransition(projects[id].status, s) }
        \cup {"project_closed"}

\* updateProjectProgress: the range check, Project.findById, and the two
\* status rules applied to the handler's copy of the document
updateProjectProgressRead(r, id, progress, user) ==
    LET doc == projects[id]
        code == updateProjectProgressCheck(doc, progress)
    IN  /\ FreeSlot(r)
        /\ IF code = 200
           THEN /\ inflight' = [inflight EXCEPT
                                  ![r] = [ Idle EXCEPT
                                           !.pc = "updateProjectProgress",
                                           !.id = id,
                                           !.status = autoStatus(doc),
                                           !.read = doc.status,
                                           !.progress = progress,
                                           !.user = user ]]
                /\ UNCHANGED last
           ELSE /\ last' = Response("updateProjectProgress", id, code, doc,
                                    doc.status, Undefined, progress, user)
                /\ UNCHANGED inflight
        /\ UNCHANGED <<projects, nextId, attendance, expenses, salaries>>

\* updateProjectProgress: project.save(), which writes the status path when
\* the handler changed it on its copy
updateProjectProgressSave(r) ==
    LET req == inflight[r]
        doc == projects[req.id]
    IN  /\ req.pc = "updateProjectProgress"
        /\ projects' = [projects EXCEPT
                          ![req.id] = IF req.status # req.read
                                      THEN saveStatus(doc, req.status)
                                      ELSE doc]
        /\ inflight' = [inflight EXCEPT ![r].pc = "updateProjectProgressSaved"]
        /\ UNCHANGED <<nextId, attendance, expenses, salaries, last>>

\* updateProjectProgress: Project.findByIdAndUpdate(id, updateData) on the
\* document as it is stored now, and the 200 response
updateProjectProgressWrite(r) ==
    LET req == inflight[r]
        doc == projects[req.id]
    IN  /\ req.pc = "updateProjectProgressSaved"
        /\ projects' = [projects EXCEPT
                          ![req.id] =
                              findByIdAndUpdate(doc,
                                  completedStatus(req.status, req.progress[1]),
                                  req.progress, req.user)]
        /\ last' = Response("updateProjectProgress", req.id, 200, doc,
                            req.read, Undefined, req.progress, req.user)
        /\ inflight' = [inflight EXCEPT ![r] = Idle]
        /\ UNCHANGED <<nextId, attendance, expenses, salaries>>

\* assignTeamAndDriver: the body check, Project.findById and the status
\* check on what it read, then the two user lookups
assignTeamAndDriverRead(r, id, workers, driverId, user) ==
    LET doc == projects[id]
        code == assignTeamAndDriverCheck(doc, workers, driverId)
    IN  /\ FreeSlot(r)
        /\ IF code = 200
           THEN /\ inflight' = [inflight EXCEPT
                                  ![r] = [ Idle EXCEPT
                                           !.pc = "assignTeamAndDriver",
                                           !.id = id,
                                           !.status = "team_assigned",
                                           !.read = doc.status,
                                           !.workers = workers[1],
                                           !.driver = driverId,
                                           !.user = user ]]
                /\ UNCHANGED last
           ELSE /\ last' = Response("assignTeamAndDriver", id, code, doc,
                                    doc.status, Undefined, <<>>, user)
                /\ UNCHANGED inflight
        /\ UNCHANGED <<projects, nextId, attendance, expenses, salaries>>

\* assignTeamAndDriver: project.save(), which writes the workers, the
\* driver, the status and updatedBy of the handler's copy
assignTeamAndDriverWrite(r) ==
    LET req == inflight[r]
        doc == projects[req.id]
    IN  /\ req.pc = "assignTeamAndDriver"
        /\ projects' = [projects EXCEPT
                          ![req.id] = IF doc.stored
                                      THEN [ doc EXCEPT
                                               !.assignedWorkers = req.workers,
                                               !.assignedDriver = req.driver,
                                               !.status = req.status,
                                               !.updatedBy = req.user ]
                                      ELSE doc]
        /\ last' = Response("assignTeamAndDriver", req.id, 200, doc, req.read,
                            Undefined, <<>>, req.user)
        /\ inflight' = [inflight EXCEPT ![r] = Idle]
        /\ UNCHANGED <<nextId, attendance, expenses, salaries>>

\* status, progress and team-assignment requests in flight together, with
\* the history of the statuses they store
NextRace ==
    \/ \E u \in Requesters : createProject(TRUE, TRUE, u)
             /\ recordVisited
    \/ \E r \in Slots, id \in ProjectIds, u \in Requesters :
          \E s \in RaceStatusInputs(id) : updateProjectStatusRead(r, id, s, u)
             /\ recordVisited
    \/ \E r \in Slots : updateProjectStatusWrite(r)
             /\ recordVisited
    \/ \E r \in Slots, id \in ProjectIds, p \in RaceProgressInputs,
          u \in Requesters : updateProjectProgressRead(r, id, p, u)
             /\ recordVisited
    \/ \E r \in Slots : updateProjectProgressSave(r)
             /\ recordVisited
    \/ \E r \in Slots : updateProjectProgressWrite(r)
             /\ recordVisited
    \/ \E r \in Slots, id \in ProjectIds, u \in Requesters :
          assignTeamAndDriverRead(r, id, <<{"w1"}>>, "d1", u)
             /\ recordVisited
    \/ \E r \in Slots : assignTeamAndDriverWrite(r)
             /\ recordVisited

SpecRace == Init /\ [][NextRace]_vars

(* ------------------------------ properties ---------------------------- *)

\* t is in the entry of the controller's table for s
TableAllows(s, t) ==
    /\ s \in DOMAIN validStatusTransitions
    /\ t \in validStatusTransitions[s]

\* the explicit status requests: updateProjectStatus, and updateProject with
\* a status in its body
StatusRequest ==
    /\ last.op \in {"updateProjectStatus", "updateProject"}
    /\ last.status # Undefined

specifiedTransitions ==
    [validStatusTransitions EXCEPT !.lpo_received = @ \cup {"team_assigned"}]

\* C2: updateProjectStatus along any edge of the specified table succeeds;
\* afterwards the stored status is the target and updatedBy the requester.
C2_TableTransitionSucceeds ==
    ( /\ last.op = "updateProjectStatus"
      /\ last.before.stored
      /\ last.before.status \in DOMAIN specifiedTransitions
      /\ last.status \in specifiedTransitions[last.before.status] )
    => ( /\ last.code = 200
         /\ projects[last.id].status = last.status
         /\ projects[last.id].updatedBy = last.user )

\* C3: updateProjectProgress with progress 100 on a stored project, whatever
\* its status, succeeds and leaves status work_completed and progress 100.
C3_Progress100Completes ==
    ( /\ last.op = "updateProjectProgress"
      /\ last.progress = <<100>>
      /\ last.before.stored )
    => ( /\ last.code = 200
         /\ projects[last.id].status = "work_completed"
         /\ projects[last.id].progress = 100 )

\* a cancelled project was moved to work_completed by progress 100
C3_Witness ==
    /\ last.op = "updateProjectProgress"
    /\ last.progress = <<100>>
    /\ last.before.stored
    /\ last.before.status = "cancelled"
    /\ projects[last.id].status = "work_completed"
    /\ projects[last.id].progress = 100

\* C4: a status write that passed validation on the status it read is
\* applied to the document stored at the time of the write and answered 200,
\* whether or not the stored status still is the one that was read (no
\* version or compare-and-swap check), so the stored status can change along
\* a pair that is not in the table.
C4_StaleStatusWriteApplied ==
    ( /\ last.op = "updateProjectStatus"
      /\ last.code = 200
      /\ last.before.stored )
    => ( /\ TableAllows(last.read, last.status)
         /\ projects[last.id].status = last.status )

\* two requests read work_completed; one wrote quality_check, and the other
\* then wrote on_hold over it: quality_check -> on_hold is not in the table
C4_Witness ==
    /\ last.op = "updateProjectStatus"
    /\ last.code = 200
    /\ last.read = "work_completed"
    /\ last.before.stored
    /\ last.before.status = "quality_check"
    /\ last.status = "on_hold"
    /\ projects[last.id].status = "on_hold"
    /\ ~TableAllows(last.before.status, last.status)

\* C5: deleteProject on a stored project fails and changes nothing unless
\* the status is draft; on a draft project it succeeds and removes it.
C5_DeleteOnlyDraft ==
    ( /\ last.op = "deleteProject"
      /\ last.before.stored )
    => IF last.before.status # "draft"
       THEN /\ last.code = 400
            /\ projects[last.id] = last.before
       ELSE /\ last.code = 200
            /\ ~projects[last.id].stored

\* a delete of a project past draft was refused, the project still stored
C5_Witness ==
    /\ last.op = "deleteProject"
    /\ last.before.stored
    /\ last.before.status = "in_progress"
    /\ last.code = 400
    /\ projects[last.id] = last.before

\* C6: whenever deleteProject's delete removes a stored project, the status
\* stored at that moment is draft.
C6_DeletedOnlyWhileDraft ==
    ( /\ last.op = "deleteProject"
      /\ last.code = 200
      /\ last.before.stored )
    => last.before.status = "draft"

Terminal == {"cancelled", "project_closed"}

ProgressOverride(s, t) ==
    /\ last.op = "updateProjectProgress"
    /\ \/ last.progress = <<100>> /\ t = "work_completed"
       \/ s = "team_assigned" /\ t = "work_started"
       \/ s = "work_started" /\ t = "in_progress"

\* C8: run one after the other, the operations change a stored status from
\* s to t only if t is in the table entry of s, or by one of the three
\* progress-driven overrides.
C8_StatusChangesAlongTable ==
    ( /\ last.before.stored
      /\ projects[last.id].stored
      /\ projects[last.id].status # last.before.status )
    => \/ TableAllows(last.before.status, projects[last.id].status)
       \/ ProgressOverride(last.before.status, projects[last.id].status)

\* C9: updateProjectProgress with 0 < p < 100 on a work_started project
\* leaves status in_progress, whatever progress was stored.
C9_WorkStartedAdvances ==
    ( /\ last.op = "updateProjectProgress"
      /\ last.code = 200
      /\ last.before.stored
      /\ last.before.status = "work_started"
      /\ last.progress[1] > 0
      /\ last.progress[1] < 100 )
    => projects[last.id].status = "in_progress"

\* C10: updateProjectProgress with a valid p < 100 on a team_assigned
\* project leaves status work_started, whatever progress was stored.
C10_TeamAssignedAdvancesOneStep ==
    ( /\ last.op = "updateProjectProgress"
      /\ last.code = 200
      /\ last.before.stored
      /\ last.before.status = "team_assigned"
      /\ last.progress[1] >= 0
      /\ last.progress[1] < 100 )
    => projects[last.id].status = "work_started"

\* C11: every operation that sets progress to exactly 100 on a stored
\* project, updateProject with progress 100 and no status in its body
\* included, leaves the stored status work_completed.
C11_Progress100AlwaysCompletes ==
    ( /\ last.op \in {"updateProject", "updateProjectProgress"}
      /\ last.code = 200
      /\ last.before.stored
      /\ last.progress = <<100>>
      /\ last.op = "updateProject" => last.status = Undefined )
    => projects[last.id].status = "work_completed"

\* the present attendance documents of a project, whoever they belong to
PresentOf(id) == { r \in attendance : r.project = id /\ r.present }

\* the labor breakdown of a stored project was returned
LaborReturned ==
    /\ last.op = "getProjectLaborData"
    /\ last.code = 200

\* C12: for a project with an assigned driver, the driver's daysPresent is
\* the number of distinct calendar days among all present attendance
\* documents of the project, whichever user they belong to and whether or
\* not the driver has any, and the driver's totalSalary is that number
\* times the driver's daily salary.
C12_DriverPaidPerProjectDay ==
    ( /\ LaborReturned
      /\ last.before.assignedDriver # Undefined )
    => LET days == Cardinality({ r.time \div 2 : r \in PresentOf(last.id) })
       IN  /\ last.labor.driver.user = last.before.assignedDriver
           /\ last.labor.driver.daysPresent = days
           /\ last.labor.driver.totalSalary
                = days * salary[last.before.assignedDriver]

\* the example: w1 present on day 0 and day 1, w2 present on day 0, the
\* driver never; the driver is paid 2 days, 100, and the labor costs 250
C12_Witness ==
    /\ LaborReturned
    /\ last.before.assignedWorkers = {"w1", "w2"}
    /\ last.before.assignedDriver = "d1"
    /\ attendance = { [project |-> last.id, user |-> "w1", time |-> 0,
                       present |-> TRUE],
                      [project |-> last.id, user |-> "w1", time |-> 2,
                       present |-> TRUE],
                      [project |-> last.id, user |-> "w2", time |-> 1,
                       present |-> TRUE] }
    /\ last.labor.driver.daysPresent = 2
    /\ last.labor.driver.totalSalary = 100
    /\ last.labor.totalLaborCost = 250

\* C13: for every worker currently assigned to the project, daysPresent is
\* the number of attendance documents with that project, that user and
\* present true: absent documents and documents of another project do not
\* count, and two present documents of one worker on one calendar day
\* count as 2.
C13_WorkerDaysCountRecords ==
    LaborReturned
    => \A w \in last.before.assignedWorkers :
          \E x \in last.labor.workers :
             /\ x.user = w
             /\ x.daysPresent
                  = Cardinality({ r \in attendance :
                                    /\ r.project = last.id
                                    /\ r.user = w
                                    /\ r.present = TRUE })

\* w1 has two present documents of the project on day 0 and an absent one
\* on day 1: w1 is counted 2 days
C13_Witness ==
    /\ LaborReturned
    /\ last.before.assignedWorkers = {"w1"}
    /\ attendance = { [project |-> last.id, user |-> "w1", time |-> 0,
                       present |-> TRUE],
                      [project |-> last.id, user |-> "w1", time |-> 1,
                       present |-> TRUE],
                      [project |-> last.id, user |-> "w1", time |-> 2,
                       present |-> FALSE] }
    /\ \E x \in last.labor.workers : x.user = "w1" /\ x.daysPresent = 2

\* the sum of the totalSalary of the worker records
RECURSIVE SumOfWorkers(_)
SumOfWorkers(records) ==
    IF records = {} THEN 0
    ELSE LET x == CHOOSE y \in records : TRUE
         IN  x.totalSalary + SumOfWorkers(records \ {x})

\* every total of a labor breakdown is the product, and the cost the sum
Consistent(labor) ==
    /\ \A x \in labor.workers : x.totalSalary = x.daysPresent * x.dailySalary
    /\ labor.driver.totalSalary
         = labor.driver.daysPresent * labor.driver.dailySalary
    /\ labor.totalLaborCost
         = SumOfWorkers(labor.workers) + labor.driver.totalSalary

\* C14: every labor breakdown the aggregation returns, and the laborDetails
\* of every expense stored after any sequence of createExpense and
\* updateExpense, has totalSalary = daysPresent * dailySalary for each
\* worker and for the driver, and totalLaborCost = the sum of the workers'
\* totalSalary plus the driver's totalSalary.
C14_TotalsAreProductsAndSum ==
    /\ \A e \in ExpenseIds :
          expenses[e].stored => Consistent(expenses[e].laborDetails)
    /\ ( /\ last.op \in {"getProjectLaborData", "createExpense", "updateExpense"}
         /\ last.code \in {200, 201} )
       => Consistent(last.labor)

\* an expense updated after attendance was marked stores a worker paid 2
\* days, a driver paid 1 day, and the sum of both
C14_Witness ==
    /\ last.op = "updateExpense"
    /\ last.code = 200
    /\ expenses[last.expense].laborDetails.totalLaborCost = 150
    /\ expenses[last.expense].laborDetails.driver.totalSalary = 50
    /\ \E x \in expenses[last.expense].laborDetails.workers :
          x.daysPresent = 2 /\ x.totalSalary = 100

\* C15: the laborDetails of a stored expense stay as createExpense stored
\* them through every later step that is not an updateExpense: changes of
\* the team (assignTeamAndDriver, updateWorkersAndDriver) and new
\* attendance documents leave them unchanged.
C15_SnapshotKeptUntilUpdateExpense ==
    [][ \A e \in ExpenseIds :
          ( /\ expenses[e].stored
            /\ last'.op # "updateExpense" )
          => expenses'[e].laborDetails = expenses[e].laborDetails ]_vars

\* after an expense was created the team was changed, and the expense
\* still stores a breakdown that a fresh aggregation no longer returns
C15_Witness ==
    /\ last.op \in {"assignTeamAndDriver", "updateWorkersAndDriver"}
    /\ last.code = 200
    /\ \E e \in ExpenseIds :
          /\ expenses[e].stored
          /\ expenses[e].project = last.id
          /\ { x.user : x \in expenses[e].laborDetails.workers }
               # projects[last.id].assignedWorkers
          /\ expenses[e].laborDetails.workers
               # calculateLaborDetails(attendance, last.id).workers

\* a labor breakdown computed afresh was returned or stored
FreshLabor ==
    /\ last.op \in {"getProjectLaborData", "updateExpense"}
    /\ last.code = 200

\* C16: a fresh aggregation reflects the current team: its workers list
\* has exactly one record for each currently assigned worker and none for
\* any other user, also one with present attendance who was removed from
\* the team; and updateExpense overwrites the laborDetails of the expense
\* with that fresh result.
C16_FreshAggregationFollowsTeam ==
    FreshLabor
    => /\ { x.user : x \in last.labor.workers }
            = projects[last.id].assignedWorkers
       /\ Cardinality(last.labor.workers)
            = Cardinality(projects[last.id].assignedWorkers)
       /\ last.op = "updateExpense"
          => /\ expenses[last.expense].laborDetails = last.labor
             /\ last.labor
                  = newObjectId(calculateLaborDetails(attendance, last.id),
                                last.labor.driver.user)

\* an expense stored with a record for w1 was updated after w1, who has
\* present attendance, was removed from the team: the record is gone
C16_Witness ==
    /\ last.op = "updateExpense"
    /\ last.code = 200
    /\ \E x \in last.stale.workers : x.user = "w1" /\ x.daysPresent > 0
    /\ \E r \in attendance :
          r.project = last.id /\ r.user = "w1" /\ r.present
    /\ "w1" \notin projects[last.id].assignedWorkers
    /\ \A x \in expenses[last.expense].laborDetails.workers : x.user # "w1"
    /\ expenses[last.expense].laborDetails # last.stale

\* C17: a labor aggregation for a project id under which no project is
\* stored is answered NotFound (404), through getProjectLaborData as well
\* as through createExpense with a valid body.
C17_MissingProjectIsNotFound ==
    ( /\ \/ last.op = "getProjectLaborData"
         \/ last.op = "createExpense" /\ last.code # 400
      /\ ~last.before.stored )
    => last.code = 404

\* C18: when the upload of a material's document does not succeed during
\* createExpense or updateExpense, the request ends with an error response
\* and no expense is created or modified.
C18_FailedUploadIsAnError ==
    [][ ( /\ last'.op \in {"createExpense", "updateExpense"}
          /\ last'.upload = "failed"
          /\ last'.code \notin {400, 404} )
        => /\ last'.code >= 500
           /\ \A e \in ExpenseIds :
                 /\ expenses'[e].stored = expenses[e].stored
                 /\ expenses'[e].laborDetails = expenses[e].laborDetails
                 /\ expenses'[e].documentKey = expenses[e].documentKey ]_vars

\* C19: when the notification e-mail fails during updateProjectProgress or
\* assignProject, the request is still answered 200 and what the handler
\* wrote before the e-mail stays stored: the progress (and work_completed
\* for progress 100), respectively the assigned engineer.
C19_MailFailureKeepsWrite ==
    last.mail = "failed"
    => /\ last.code = 200
       /\ last.op = "updateProjectProgress"
          => /\ projects[last.id].progress = last.progress[1]
             /\ projects[last.id].updatedBy = last.user
             /\ last.progress = <<100>>
                => projects[last.id].status = "work_completed"
       /\ last.op = "assignProject"
          => projects[last.id].assignedTo = last.assignedTo

\* the e-mail of a progress update to 100 failed: the request was answered
\* 200 and the project is stored completed at 100
C19_Witness ==
    /\ last.op = "updateProjectProgress"
    /\ last.mail = "failed"
    /\ last.code = 200
    /\ last.before.progress = 50
    /\ last.before.status = "in_progress"
    /\ projects[last.id].progress = 100
    /\ projects[last.id].status = "work_completed"

\* C20: in every reachable state every stored project has a status of the
\* enum and a progress that is a number from 0 to 100, a project is created
\* with status draft and progress 0, and no sequence of createProject,
\* updateProject, updateProjectStatus, updateProjectProgress and
\* assignTeamAndDriver breaks this.
C20_StatusInEnumProgressInRange ==
    /\ \A id \in ProjectIds :
          projects[id].stored
          => /\ projects[id].status \in Statuses
             /\ projects[id].progress # NullNumber
             /\ projects[id].progress >= 0
             /\ projects[id].progress <= 100
    /\ ( last.op = "createProject" /\ last.code = 201 )
       => /\ projects[last.id].status = "draft"
          /\ projects[last.id].progress = 0

\* the amounts of a labor breakdown: everything but the id of the record
\* of a driver that is not assigned
Amounts(labor) ==
    [ workers |-> labor.workers,
      driver |-> [ daysPresent |-> labor.driver.daysPresent,
                   dailySalary |-> labor.driver.dailySalary,
                   totalSalary |-> labor.driver.totalSalary ],
      totalLaborCost |-> labor.totalLaborCost ]

PresentDocsOf(docs, id, w) ==
    { r \in docs : r.project = id /\ r.user = w /\ r.present }

\* the sets of further present documents of w on project id that double
\* the ones w has in the collection
Doublings(id, w) ==
    { D \in SUBSET { [project |-> id, user |-> w, time |-> t,
                      present |-> TRUE] : t \in Times } :
        /\ D \cap attendance = {}
        /\ uniqueIndex(attendance \cup D)
        /\ Cardinality(D) = Cardinality(PresentDocsOf(attendance, id, w)) }

\* the totalSalary of the record of user w in a breakdown
TotalSalaryOf(labor, w) ==
    LET x == CHOOSE y \in labor.workers : y.user = w IN x.totalSalary

\* C22: for an assigned worker, doubling the number of the worker's
\* present attendance documents on the project from n to 2n doubles the
\* worker's totalSalary in the aggregation and leaves the totalSalary of
\* every other worker as it was.
C22_WorkerTotalScalesLinearly ==
    LaborReturned
    => \A w \in last.before.assignedWorkers :
          \A D \in Doublings(last.id, w) :
             LET doubled == calculateLaborDetails(attendance \cup D, last.id)
             IN  /\ TotalSalaryOf(doubled, w)
                      = 2 * TotalSalaryOf(last.labor, w)
                 /\ \A v \in last.before.assignedWorkers \ {w} :
                       TotalSalaryOf(doubled, v) = TotalSalaryOf(last.labor, v)

\* w1 is present on day 0 and day 1, paid 100, and two more present
\* documents exist that double its days; w2 is paid for its one day
C22_Witness ==
    /\ LaborReturned
    /\ last.before.assignedWorkers = {"w1", "w2"}
    /\ Cardinality(PresentDocsOf(attendance, last.id, "w1")) = 2
    /\ { r.time \div 2 : r \in PresentDocsOf(attendance, last.id, "w1") }
         = {0, 1}
    /\ Doublings(last.id, "w1") # {}
    /\ TotalSalaryOf(last.labor, "w1") = 100
    /\ TotalSalaryOf(last.labor, "w2") = 50

\* the progress of the last request is a number below 0 or above 100
ProgressNumberOutOfRange ==
    /\ last.progress # <<>>
    /\ last.progress[1] # NullNumber
    /\ (last.progress[1] < 0 \/ last.progress[1] > 100)

\* C23: updateProjectProgress without a progress or with a progress below 0
\* or above 100, and updateProject with a progress below 0 or above 100,
\* are answered 400 on a stored project and leave it as it was: no status
\* auto-transition is applied and no progress comment is created.
C23_ProgressValidationRejects ==
    ( /\ last.before.stored
      /\ \/ /\ last.op = "updateProjectProgress"
            /\ (last.progress = <<>> \/ ProgressNumberOutOfRange)
         \/ /\ last.op = "updateProject"
            /\ ProgressNumberOutOfRange )
    => /\ last.code = 400
       /\ projects[last.id] = last.before
       /\ ~last.commented

\* a progress update to 101 on a team_assigned project was refused: the
\* status did not advance and no comment was written
C23_Witness ==
    /\ last.op = "updateProjectProgress"
    /\ last.progress = <<101>>
    /\ last.before.stored
    /\ last.before.status = "team_assigned"
    /\ last.code = 400
    /\ projects[last.id].status = "team_assigned"
    /\ ~last.commented

\* C24: when the project has no assigned driver, the driver record of the
\* aggregation has daysPresent 0, dailySalary 0 and totalSalary 0 whatever
\* attendance the project has, so that totalLaborCost is the sum of the
\* workers' totalSalary; and a worker or driver whose salary is unset has
\* dailySalary 0 (and so totalSalary 0).
C24_NoDriverAndUnsetSalaryCostNothing ==
    LaborReturned
        => /\ last.before.assignedDriver = Undefined
                => /\ last.labor.driver.daysPresent = 0
                   /\ last.labor.driver.dailySalary = 0
                   /\ last.labor.driver.totalSalary = 0
                   /\ last.labor.totalLaborCost
                        = SumOfWorkers(last.labor.workers)
           /\ \A x \in last.labor.workers \cup {last.labor.driver} :
                (x.user \in DOMAIN salaries /\ salaries[x.user] = NullNumber)
                    => x.dailySalary = 0 /\ x.totalSalary = 0

\* a breakdown of a project without driver that has present attendance, with
\* a worker present on it whose salary is unset
C24_Witness ==
    /\ LaborReturned
    /\ last.before.assignedDriver = Undefined
    /\ PresentOf(last.id) # {}
    /\ \E x \in last.labor.workers :
          /\ salaries[x.user] = NullNumber
          /\ x.daysPresent > 0
          /\ x.dailySalary = 0
    /\ last.labor.totalLaborCost = 0

C26_WorkStartsAfterLpoReceived ==
    \A i \in ProjectIds :
        (projects[i].stored
           /\ projects[i].status \in {"work_started", "in_progress"})
            => "lpo_received" \in visited[i]

\* C27: in every execution, also with status, progress and team-assignment
\* requests interleaved at their awaits, a project whose stored status is
\* project_closed has had the stored status payment_received earlier:
\* project_closed is written only by an explicit transition request that
\* read payment_received.
C27_ClosedAfterPaymentReceived ==
    \A i \in ProjectIds :
        (projects[i].stored /\ projects[i].status = "project_closed")
            => "payment_received" \in visited[i]

\* a status request that read payment_received closed the project after a
\* racing progress request had moved it to work_completed
C27_Witness ==
    /\ last.op = "updateProjectStatus"
    /\ last.code = 200
    /\ last.read = "payment_received"
    /\ last.status = "project_closed"
    /\ last.before.status = "work_completed"
    /\ projects[last.id].status = "project_closed"
    /\ "payment_received" \in visited[last.id]

\* C28: whenever a project's stored status is team_assigned, the project
\* has at least one assigned worker and an assigned driver: no sequence of
\* assignTeamAndDriver, updateWorkersAndDriver, updateProject and
\* updateProjectStatus reaches team_assigned with an empty worker list or
\* without a driver.
C28_TeamAssignedHasTeam ==
    \A i \in ProjectIds :
        (projects[i].stored /\ projects[i].status = "team_assigned")
            => /\ projects[i].assignedWorkers # {}
               /\ projects[i].assignedDriver # Undefined

C30_UpdateTeamChangesOnlyTeam ==
    [][ last'.op = "updateWorkersAndDriver" =>
        \A id \in ProjectIds, w \in WorkersOption, d \in DriverInputs,
           u \in Requesters :
          (updateWorkersAndDriver(id, w, d, u) /\ projects[id].stored)
            => /\ (w = <<>> /\ d = Null)
                    => projects'[id].assignedDriver = Undefined
               /\ (w = <<{}>> /\ d \in {Undefined, Null} \cup Drivers)
                    => projects'[id].assignedWorkers = {}
               /\ projects'[id].status = projects[id].status
               /\ projects'[id].progress = projects[id].progress
               /\ ( \/ (w # <<>> /\ ~(w[1] \subseteq Workers))
                    \/ d \notin {Undefined, Null} \cup Drivers )
                    => /\ last'.code = 400
                       /\ projects' = projects ]_vars

====
